---- MODULE Spec2Model ----
(***************************************************************************)
(* A model of the in-process chat client of iroh-lab (src/src/client.rs):  *)
(* the topic directory of IrohClient (create_topic / join_topic), the      *)
(* ticket encoding, the global message channel and the registry of         *)
(* forwarders behind get_message_receiver / broadcast_message; and of the  *)
(* GUI application built beside it (src/src/main.rs): the screens of       *)
(* IrohChat, its own ticket encoding, its message list and dedup set.      *)
(*                                                                         *)
(* Strings whose structure the code inspects (tickets, topic names, topic  *)
(* hashes, message ids) are sequences of one-character strings, so that    *)
(* format!, split('-') and join("-") are computed character by character.  *)
(* Option<T> is a sequence of length 0 (None) or 1 (Some(v)).              *)
(***************************************************************************)
EXTENDS Integers, Sequences, FiniteSets, TLC

\* ------------------------------------------------------------------ bounds
MaxUuid == 2
MaxSubs == 2
MaxQueue == 1
MaxInit == 2
MaxGuiUuid == 3
MaxRegistry == 4
MaxChatUuid == 4

\* the client instances (A and B) and the threads that call into the hub
Clients == {1, 2}
Threads == {1, 2}

\* the running instances of the GUI application (src/src/main.rs)
Apps == {1, 2}

\* ----------------------------------------------------------------- strings
None == <<>>
Some(v) == <<v>>

Sep == "-"
TicketPrefix == <<"t", "i", "c", "k", "e", "t", "-">>
Ping == <<"p", "i", "n", "g">>

StartsWith(s, p) == Len(s) >= Len(p) /\ SubSeq(s, 1, Len(p)) = p

\* str::split(sep): the segments between separators, empty segments included
RECURSIVE SplitFrom(_, _, _)
SplitFrom(s, sep, cur) ==
    IF s = <<>> THEN <<cur>>
    ELSE IF Head(s) = sep THEN <<cur>> \o SplitFrom(Tail(s), sep, <<>>)
    ELSE SplitFrom(Tail(s), sep, Append(cur, Head(s)))

Split(s, sep) == SplitFrom(s, sep, <<>>)

\* [&str]::join(sep)
RECURSIVE Join(_, _)
Join(parts, sep) ==
    IF parts = <<>> THEN <<>>
    ELSE IF Len(parts) = 1 THEN parts[1]
    ELSE parts[1] \o <<sep>> \o Join(Tail(parts), sep)

HasSep(s) == \E i \in 1..Len(s) : s[i] = Sep

\* Uuid::new_v4().to_string(): five groups of hexadecimal digits separated by
\* '-' (8-4-4-4-12 digits in the code, one digit per group here); the k-th
\* generated value differs from every other one.
HexDigits == <<"1", "2", "3", "4", "5", "6", "7", "8", "9">>
UuidString(k) ==
    <<HexDigits[k], "-", "0", "-", "4", "-", "8", "-", HexDigits[k]>>

\* format!("{}-{}", topic_name, uuid)
FormatHash(topic_name, uuid) == topic_name \o <<Sep>> \o uuid

\* format!("ticket-{}-{}", topic_name, uuid)
FormatTicket(topic_name, uuid) == TicketPrefix \o topic_name \o <<Sep>> \o uuid

\* ------------------------------------------------------------------ inputs
\* topic names given to create_topic: one without and one with the separator
TopicNames == { <<"a">>, <<"a", "-", "b">> }

\* tickets given to join_topic besides those create_topic has returned:
\* "not-a-ticket", "ticket-", "ticket-abc", "ticket-a-b"
ForeignTickets ==
    { <<"n", "o", "t", "-", "a", "-", "t", "i", "c", "k", "e", "t">>,
      TicketPrefix,
      TicketPrefix \o <<"a", "b", "c">>,
      TicketPrefix \o <<"a", "-", "b">> }

\* tickets typed by hand: "ticket-abc", "ticket-a-b"
TypedTickets ==
    { TicketPrefix \o <<"a", "b", "c">>, TicketPrefix \o <<"a", "-", "b">> }

Authors == { "alice", "system" }
Contents == { <<"hello">> }
Sequences == { 1 }

\* ------------------------------------------------------------------- state
VARIABLES
    clients,                \* IrohClient instances: the fields of the struct
    uuidCount,              \* number of Uuid::new_v4() values generated so far
    MESSAGE_SENDER,         \* Option: the main channel the static sender feeds
    MESSAGE_RECEIVER,       \* Option: the main channel the static receiver reads
    chans,                  \* main channels made by initialize_message_channel
    MESSAGE_FORWARDERS,     \* Option<Vec>: the static of get_message_receiver
    MESSAGE_FORWARDERS_bm,  \* Option<Vec>: the static of broadcast_message
    subs,                   \* channels made by get_message_receiver
    waiting,                \* per client: the receiver wait_for_message holds
    created,                \* the values create_topic has returned
    returned,               \* per client: what its last Ok create/join returned
    last,                   \* the last call made and what it returned
    pc,                     \* per thread: position inside the call it runs
    tl,                     \* per thread: the locals of the call it runs
    apps,                   \* GUI instances: the fields of struct IrohChat
    inflight,               \* per GUI instance: commands whose result is due
    guiChannel,             \* per GUI instance: the queue of main.rs's channel
    guiUuid,                \* number of Uuid::new_v4() values the GUIs drew
    clipboard               \* the system clipboard the GUI instances share

vars == <<clients, uuidCount, MESSAGE_SENDER, MESSAGE_RECEIVER, chans,
          MESSAGE_FORWARDERS, MESSAGE_FORWARDERS_bm, subs, waiting, created,
          returned, last, pc, tl, apps, inflight, guiChannel, guiUuid,
          clipboard>>

hubVars == <<MESSAGE_SENDER, MESSAGE_RECEIVER, chans, MESSAGE_FORWARDERS,
             MESSAGE_FORWARDERS_bm, subs>>
threadVars == <<pc, tl>>
guiVars == <<apps, inflight, guiChannel, guiUuid, clipboard>>

Range(f) == { f[i] : i \in DOMAIN f }

\* struct ChatMessage (the timestamp, which no operation reads, is left out)
ChatMessage(id, author, content, topic_hash, sequence) ==
    [id |-> id, author |-> author, content |-> content,
     topic_hash |-> topic_hash, sequence |-> sequence]

\* the liveness probe get_message_receiver sends to every forwarder
PingMessage == ChatMessage(Ping, "system", Ping, Ping, 0)

\* HashMap::new()
EmptyMap == [k \in {} |-> <<>>]

\* IrohClient::new()
NewClient ==
    [node_id |-> None, topic_ticket |-> None, topic_hash |-> None,
     subscribed_topics |-> EmptyMap, endpoint |-> FALSE]

\* a variant of MapInsert that keeps the entry a key already has
MapInsertIfAbsent(map, key, value) ==
    [k \in (DOMAIN map) \cup {key} |->
        IF k \in DOMAIN map THEN map[k] ELSE value]

\* HashMap::insert: an earlier entry under the same key is replaced
MapInsert(map, key, value) ==
    [k \in (DOMAIN map) \cup {key} |-> IF k = key THEN value ELSE map[k]]

NoCall == [op |-> "none", c |-> 0, arg |-> <<>>, ok |-> TRUE, val |-> <<>>,
           bcast |-> <<>>]
Call(op, c, arg, ok, val, bcast) ==
    [op |-> op, c |-> c, arg |-> arg, ok |-> ok, val |-> val, bcast |-> bcast]

IdleLocals == [msg |-> <<>>, snap |-> <<>>, ch |-> 0, sub |-> 0]

\* enum InputState (main.rs:62-87): the screen and its text fields; a field
\* the variant does not have is the empty string
InputState(screen, username, topic_name, ticket, message) ==
    [screen |-> screen, username |-> username, topic_name |-> topic_name,
     ticket |-> ticket, message |-> message]

\* IrohChat::new (main.rs:130-144)
NewApp ==
    [input_state |-> InputState("Welcome", <<>>, <<>>, <<>>, <<>>),
     current_topic |-> None, messages |-> <<>>, processed_message_ids |-> {},
     sequence_counter |-> 0, node_id |-> None, topic_ticket |-> None,
     topic_hash |-> None, subscribed_topics |-> EmptyMap, error |-> None]

\* the commands of a GUI instance whose result has not been handed to update
\* yet, by the Message the result comes back as; `replies` are the tasks of
\* SendMessage that sleep before they send the simulated reply
NoCommands ==
    [NetworkInitialized |-> {}, TopicCreated |-> {}, TopicJoined |-> {},
     MessageReceived |-> {}, replies |-> {}]

\* main.rs:147-154: the node id IrohChat::new asks for is a UUID of its own
NodeId(g) == <<"n", "o", "d", "e", "-">> \o UuidString(g)

Init ==
    /\ apps = [g \in Apps |-> NewApp]
    /\ inflight = [g \in Apps |->
            [NoCommands EXCEPT !.NetworkInitialized = {NodeId(g)}]]
    /\ guiChannel = [g \in Apps |-> <<>>]
    /\ guiUuid = 0
    /\ clipboard = None
    /\ clients = [c \in Clients |-> NewClient]
    /\ uuidCount = 0
    /\ MESSAGE_SENDER = None
    /\ MESSAGE_RECEIVER = None
    /\ chans = <<>>
    /\ MESSAGE_FORWARDERS = None
    /\ MESSAGE_FORWARDERS_bm = None
    /\ subs = <<>>
    /\ waiting = [c \in Clients |-> 0]
    /\ created = {}
    /\ returned = [c \in Clients |-> None]
    /\ last = NoCall
    /\ pc = [t \in Threads |-> "idle"]
    /\ tl = [t \in Threads |-> IdleLocals]

\* ------------------------------------------------------- channel primitives
\* mpsc::unbounded_channel(): a queue and whether its receiver is still alive
NewChannel(alive) == [open |-> alive, queue |-> <<>>]

\* the channel get_message_receiver makes for a caller acting for a client
\* whose active topic is `filter`; `waiter` is the client whose
\* wait_for_message holds the receiver, 0 when another caller holds it
NewSubscriber(filter, waiter) ==
    [open |-> TRUE, queue |-> <<>>, filter |-> filter, waiter |-> waiter]

\* a variant of Retained that keeps every forwarder
RetainedAll(ss, fw) == fw

\* a variant of CanSend for a channel of capacity one, whose send waits for
\* room
CanSendBounded(chan) == Len(chan.queue) < 1

\* UnboundedSender::send is not async and has no capacity: the caller never
\* waits, whatever the queue holds
CanSend(chan) == TRUE

\* UnboundedSender::send: Ok exactly when the receiver has not been dropped
SendOk(chan) == chan.open

\* Vec::retain(|f| f.send(msg).is_ok()): the queues after the sends ...
SendAll(ss, fw, msg) ==
    [i \in DOMAIN ss |->
        IF i \in Range(fw) /\ SendOk(ss[i])
        THEN [ss[i] EXCEPT !.queue = Append(@, msg)]
        ELSE ss[i]]

\* ... and the forwarders that are kept, in their order
Retained(ss, fw) == SelectSeq(fw, LAMBDA i : SendOk(ss[i]))

\* a variant of IsProbe that looks at the id alone
IsProbeById(m) == m.id = Ping

\* client.rs:148: the filter on liveness probes
IsProbe(m) == m.id = Ping /\ m.author = "system"

\* a variant of SendMain that sends the message twice
SendMainTwice(cs, sender, m) ==
    IF sender # None /\ SendOk(cs[sender[1]])
    THEN [cs EXCEPT ![sender[1]].queue = Append(Append(@, m), m)]
    ELSE cs

\* client.rs:159-163: the send to the main channel, when there is one
SendMain(cs, sender, m) ==
    IF sender # None /\ SendOk(cs[sender[1]])
    THEN [cs EXCEPT ![sender[1]].queue = Append(@, m)]
    ELSE cs

\* IrohClient::broadcast_message, as one uninterrupted call
Broadcast(m) ==
    IF IsProbe(m)
    THEN UNCHANGED <<chans, subs, MESSAGE_FORWARDERS_bm>>
    ELSE /\ chans' = SendMain(chans, MESSAGE_SENDER, m)
         /\ IF MESSAGE_FORWARDERS_bm # None
            THEN /\ subs' = SendAll(subs, MESSAGE_FORWARDERS_bm[1], m)
                 /\ MESSAGE_FORWARDERS_bm' =
                        Some(Retained(subs, MESSAGE_FORWARDERS_bm[1]))
            ELSE UNCHANGED <<subs, MESSAGE_FORWARDERS_bm>>

\* what a call hands to broadcast_message and the probe filter lets through
Passed(m) == IF IsProbe(m) THEN <<>> ELSE <<m>>

\* ------------------------------------------------------------ IrohClient
\* IrohClient::initialize_network: binds the endpoint and stores the node id,
\* or returns the error of the bind and stores nothing
initialize_network(c) ==
    /\ \E bound \in BOOLEAN :
        /\ clients' = IF bound
                      THEN [clients EXCEPT ![c].endpoint = TRUE,
                                           ![c].node_id = Some(c)]
                      ELSE clients
        /\ last' = Call("initialize_network", c, <<>>, bound, <<>>, <<>>)
    /\ UNCHANGED <<uuidCount, hubVars, waiting, created, returned, guiVars,
                   threadVars>>

\* client.rs:269-276: the announcement of a created topic
CreatedAnnouncement(id, topic_name, topic_hash) ==
    ChatMessage(id, "System",
                <<"Topic '">> \o topic_name \o <<"' was created">>,
                topic_hash, 0)

\* a variant of SetTopic that writes the fields of every instance
SetTopicEveryClient(cs, c, ticket, topic_name, topic_hash) ==
    [k \in DOMAIN cs |->
        [cs[k] EXCEPT
            !.topic_ticket = Some(ticket),
            !.topic_hash = Some(topic_hash),
            !.subscribed_topics = MapInsert(@, topic_name, topic_hash)]]

\* a variant of SetTopic that leaves topic_ticket as it was
SetTopicHashOnly(cs, c, ticket, topic_name, topic_hash) ==
    [cs EXCEPT
        ![c].topic_hash = Some(topic_hash),
        ![c].subscribed_topics = MapInsert(@, topic_name, topic_hash)]

\* client.rs:258-263 (and 318-324, 372-376): self.topic_ticket,
\* self.topic_hash and the insert into self.subscribed_topics
SetTopic(cs, c, ticket, topic_name, topic_hash) ==
    [cs EXCEPT
        ![c].topic_ticket = Some(ticket),
        ![c].topic_hash = Some(topic_hash),
        ![c].subscribed_topics = MapInsert(@, topic_name, topic_hash)]

\* IrohClient::create_topic
create_topic(c, topic_name) ==
    LET uuid == UuidString(uuidCount + 1)
        topic_hash == FormatHash(topic_name, uuid)
        ticket == FormatTicket(topic_name, uuid)
        announce == clients[c].endpoint
        system_msg == CreatedAnnouncement(UuidString(uuidCount + 2),
                                          topic_name, topic_hash)
        result == [name |-> topic_name, ticket |-> ticket, hash |-> topic_hash]
    IN  /\ uuidCount + (IF announce THEN 2 ELSE 1) <= MaxUuid
        /\ uuidCount' = uuidCount + (IF announce THEN 2 ELSE 1)
        /\ clients' = SetTopic(clients, c, ticket, topic_name, topic_hash)
        /\ IF announce
           THEN Broadcast(system_msg)
           ELSE UNCHANGED <<chans, subs, MESSAGE_FORWARDERS_bm>>
        /\ created' = created \cup {result}
        /\ returned' = [returned EXCEPT ![c] =
                            Some([name |-> topic_name, hash |-> topic_hash])]
        /\ last' = Call("create_topic", c, topic_name, TRUE, result,
                        IF announce THEN Passed(system_msg) ELSE <<>>)
        /\ UNCHANGED <<MESSAGE_SENDER, MESSAGE_RECEIVER, MESSAGE_FORWARDERS,
                       waiting, threadVars, guiVars>>

\* client.rs:309-313: the decoding of a ticket
TicketParts(ticket) == Split(ticket, Sep)
JoinTopicName(parts) == Join(SubSeq(parts, 2, Len(parts) - 1), Sep)
JoinUuid(parts) == parts[Len(parts)]

\* a variant of JoinTopicHash that keeps only the last segment of the ticket
JoinTopicHashUuidOnly(topic_name, uuid) == uuid

\* client.rs:316
JoinTopicHash(topic_name, uuid) == FormatHash(topic_name, uuid)

\* client.rs:366: "joined-topic"
JoinedTopic == <<"j", "o", "i", "n", "e", "d", "-", "t", "o", "p", "i", "c">>

\* client.rs:332-339: the announcement of a joined topic
JoinedAnnouncement(id, topic_hash) ==
    ChatMessage(id, "System", <<"A new user joined the topic">>, topic_hash, 0)

\* client.rs:307-313: what join_topic reads off the ticket
DecodeTicket(ticket) ==
    LET parts == TicketParts(ticket)
    IN  [prefixed |-> StartsWith(ticket, TicketPrefix),
         segments |-> Len(parts),
         topic_name |-> JoinTopicName(parts),
         uuid |-> JoinUuid(parts)]

\* a variant of WellFormed that accepts any ticket with the prefix
WellFormedAnySegments(d) == d.prefixed

\* client.rs:307-310: the tickets join_topic decodes
WellFormed(d) == d.prefixed /\ d.segments >= 3

\* a variant of AfterJoin that stores the ticket before it is validated
AfterJoinEager(cs, c, ticket, d, topic_name, topic_hash) ==
    IF d.prefixed /\ ~WellFormed(d)
    THEN [cs EXCEPT ![c].topic_ticket = Some(ticket)]
    ELSE SetTopic(cs, c, ticket, topic_name, topic_hash)

\* client.rs:318-324, 372-376 and the Err of 361: the fields join_topic
\* writes, none when the ticket is rejected
AfterJoin(cs, c, ticket, d, topic_name, topic_hash) ==
    IF d.prefixed /\ ~WellFormed(d)
    THEN cs
    ELSE SetTopic(cs, c, ticket, topic_name, topic_hash)

\* IrohClient::join_topic
join_topic(c, ticket) ==
    \E d \in {DecodeTicket(ticket)} :
    LET wellFormed == WellFormed(d)
        topic_name == IF wellFormed THEN d.topic_name ELSE JoinedTopic
        topic_hash == IF wellFormed
                      THEN JoinTopicHash(d.topic_name, d.uuid)
                      ELSE UuidString(uuidCount + 1)
        announce == wellFormed /\ clients[c].endpoint
        system_msg == JoinedAnnouncement(UuidString(uuidCount + 1), topic_hash)
        used == IF d.prefixed /\ ~announce THEN 0 ELSE 1
        result == [name |-> topic_name, hash |-> topic_hash]
    IN  /\ uuidCount + used <= MaxUuid
        /\ uuidCount' = uuidCount + used
        /\ clients' = AfterJoin(clients, c, ticket, d, topic_name, topic_hash)
        /\ IF d.prefixed /\ ~wellFormed
           THEN \* Err("Invalid ticket format")
                /\ last' = Call("join_topic", c, ticket, FALSE, <<>>, <<>>)
                /\ UNCHANGED <<chans, subs, MESSAGE_FORWARDERS_bm, returned>>
           ELSE /\ returned' = [returned EXCEPT ![c] = Some(result)]
                /\ IF announce
                   THEN Broadcast(system_msg)
                   ELSE UNCHANGED <<chans, subs, MESSAGE_FORWARDERS_bm>>
                /\ last' = Call("join_topic", c, ticket, TRUE, result,
                                IF announce THEN Passed(system_msg) ELSE <<>>)
        /\ UNCHANGED <<MESSAGE_SENDER, MESSAGE_RECEIVER, MESSAGE_FORWARDERS,
                       waiting, created, guiVars, threadVars>>

\* a variant of ActiveTopic that falls back to an empty topic hash
ActiveTopicOrDefault(client) ==
    IF client.topic_hash = None THEN Some(<<>>) ELSE client.topic_hash

\* client.rs:397-400: the active topic send_message requires
ActiveTopic(client) == client.topic_hash

\* a variant of SendResult that reports a failed send to the main channel
SendResultChecked(cs, sender) == sender # None /\ SendOk(cs[sender[1]])

\* client.rs:419-438: broadcast_message returns nothing and send_message
\* returns Ok(()) after it, whatever became of the sends
SendResult(cs, sender) == TRUE

\* IrohClient::send_message
send_message(c, username, message_content, sequence) ==
    IF ActiveTopic(clients[c]) = None
    THEN \* Err("No active topic hash")
         /\ last' = Call("send_message", c, <<>>, FALSE, <<>>, <<>>)
         /\ UNCHANGED <<clients, uuidCount, hubVars, waiting, created,
                        returned, guiVars, threadVars>>
    ELSE LET chat_message == ChatMessage(UuidString(uuidCount + 1), username,
                                         message_content,
                                         ActiveTopic(clients[c])[1], sequence)
         IN  /\ uuidCount < MaxUuid
             /\ uuidCount' = uuidCount + 1
             /\ Broadcast(chat_message)
             /\ last' = Call("send_message", c, chat_message,
                             SendResult(chans, MESSAGE_SENDER),
                             [author |-> username, content |-> message_content,
                              sequence |-> sequence],
                             Passed(chat_message))
             /\ UNCHANGED <<clients, MESSAGE_SENDER, MESSAGE_RECEIVER,
                            MESSAGE_FORWARDERS, waiting, created, returned,
                            guiVars, threadVars>>

\* ------------------------------------------------------------------ the hub
\* IrohClient::initialize_message_channel, as one uninterrupted call: the
\* new sender always replaces MESSAGE_SENDER; the new receiver is stored only
\* when MESSAGE_RECEIVER is empty and is dropped on return otherwise
initialize_message_channel ==
    /\ Len(chans) < MaxInit
    /\ MESSAGE_SENDER' = Some(Len(chans) + 1)
    /\ IF MESSAGE_RECEIVER = None
       THEN /\ MESSAGE_RECEIVER' = Some(Len(chans) + 1)
            /\ chans' = Append(chans, NewChannel(TRUE))
       ELSE /\ MESSAGE_RECEIVER' = MESSAGE_RECEIVER
            /\ chans' = Append(chans, NewChannel(FALSE))
    /\ last' = Call("initialize_message_channel", 0, <<>>, TRUE, <<>>, <<>>)
    /\ UNCHANGED <<clients, uuidCount, MESSAGE_FORWARDERS,
                   MESSAGE_FORWARDERS_bm, subs, waiting, created, returned,
                   guiVars, threadVars>>

\* client.rs:110-112 and the read at 115: the list get_message_receiver uses
Forwarders(reg) == IF reg = None THEN <<>> ELSE reg[1]

\* client.rs:105-139 as one uninterrupted call: probe every forwarder, keep
\* those whose send succeeded, push the new sender
Register(filter, waiter) ==
    LET fw == Forwarders(MESSAGE_FORWARDERS)
    IN  /\ subs' = Append(SendAll(subs, fw, PingMessage),
                          NewSubscriber(filter, waiter))
        /\ MESSAGE_FORWARDERS' =
                Some(Append(Retained(subs, fw), Len(subs) + 1))

\* a variant of NoSender that takes the channel for initialized
NoSenderNever == FALSE

\* client.rs:91-94, 103: get_message_sender() is None
NoSender == MESSAGE_SENDER = None

\* IrohClient::get_message_receiver, called on behalf of client c, while
\* fewer than n receivers have been made
get_message_receiver_upto(c, n) ==
    /\ IF NoSender
       THEN /\ last' = Call("get_message_receiver", c, <<>>, FALSE, None, <<>>)
            /\ UNCHANGED <<subs, MESSAGE_FORWARDERS>>
       ELSE /\ Len(subs) < n
            /\ Register(clients[c].topic_hash, 0)
            /\ last' = Call("get_message_receiver", c, <<>>, TRUE,
                            Some(Len(subs) + 1), <<>>)
    /\ UNCHANGED <<clients, uuidCount, MESSAGE_SENDER, MESSAGE_RECEIVER, chans,
                   MESSAGE_FORWARDERS_bm, waiting, created, returned, guiVars,
                   threadVars>>

get_message_receiver(c) == get_message_receiver_upto(c, MaxSubs)

\* a topic hash no client of the model holds: "b-0"
ForeignHash == <<"b", "-", "0">>

\* the messages a caller hands to broadcast_message directly
BroadcastInputs ==
    { ChatMessage(id, author, content, topic_hash, 1) :
        id \in {Ping, UuidString(uuidCount + 1)},
        author \in Authors,
        content \in Contents,
        topic_hash \in {Ping, ForeignHash} \cup
            { clients[c].topic_hash[1] :
                c \in { d \in Clients : clients[d].topic_hash # None } } }

\* the main channel's queue has room left within the bound of the model
MainQueueRoom ==
    MESSAGE_SENDER # None => Len(chans[MESSAGE_SENDER[1]].queue) < MaxQueue

\* IrohClient::broadcast_message, called directly
broadcast_message(m) ==
    /\ MainQueueRoom
    /\ IF m.id = Ping
       THEN UNCHANGED uuidCount
       ELSE uuidCount < MaxUuid /\ uuidCount' = uuidCount + 1
    /\ Broadcast(m)
    /\ last' = Call("broadcast_message", 0, m, TRUE, <<>>, Passed(m))
    /\ UNCHANGED <<clients, MESSAGE_SENDER, MESSAGE_RECEIVER,
                   MESSAGE_FORWARDERS, waiting, created, returned, guiVars,
                   threadVars>>

\* UnboundedReceiver::recv / try_recv by the holder of receiver i
recv(i) ==
    /\ subs[i].open /\ subs[i].waiter = 0 /\ subs[i].queue # <<>>
    /\ subs' = [subs EXCEPT ![i].queue = Tail(@)]
    /\ last' = Call("recv", 0, i, TRUE, Some(Head(subs[i].queue)), <<>>)
    /\ UNCHANGED <<clients, uuidCount, MESSAGE_SENDER, MESSAGE_RECEIVER, chans,
                   MESSAGE_FORWARDERS, MESSAGE_FORWARDERS_bm, waiting,
                   created, returned, guiVars, threadVars>>

\* the holder of receiver i drops it: the channel is closed, its queue freed
drop_receiver(i) ==
    /\ subs[i].open /\ subs[i].waiter = 0
    /\ subs' = [subs EXCEPT ![i].open = FALSE, ![i].queue = <<>>]
    /\ last' = Call("drop_receiver", 0, i, TRUE, <<>>, <<>>)
    /\ UNCHANGED <<clients, uuidCount, MESSAGE_SENDER, MESSAGE_RECEIVER, chans,
                   MESSAGE_FORWARDERS, MESSAGE_FORWARDERS_bm, waiting,
                   created, returned, guiVars, threadVars>>

\* IrohClient::wait_for_message up to its select!: client.rs:461
wait_for_message_begin(c) ==
    /\ waiting[c] = 0
    /\ IF MESSAGE_SENDER = None
       THEN /\ last' = Call("wait_for_message", c, <<>>, TRUE, None, <<>>)
            /\ UNCHANGED <<subs, MESSAGE_FORWARDERS, waiting>>
       ELSE /\ Len(subs) < MaxSubs
            /\ Register(clients[c].topic_hash, c)
            /\ waiting' = [waiting EXCEPT ![c] = Len(subs) + 1]
            /\ last' = Call("wait_for_message_begin", c, <<>>, TRUE, <<>>,
                                                           <<>>)
    /\ UNCHANGED <<clients, uuidCount, MESSAGE_SENDER, MESSAGE_RECEIVER, chans,
                   MESSAGE_FORWARDERS_bm, created, returned, guiVars,
                   threadVars>>

\* a variant of WaitOutcomes without the timeout branch
WaitOutcomesNoTimeout(queue) ==
    IF queue # <<>> THEN {Some(Head(queue))} ELSE {}

\* client.rs:466-469: what select! can return: the next message of the
\* receiver when there is one, None when the timeout fires first
WaitOutcomes(queue) ==
    {None} \cup (IF queue # <<>> THEN {Some(Head(queue))} ELSE {})

\* client.rs:466-469: select! takes the next message of the receiver, or
\* the timeout; the receiver is dropped on return
wait_for_message_end(c) ==
    /\ waiting[c] # 0
    /\ LET i == waiting[c]
       IN \E message \in WaitOutcomes(subs[i].queue) :
            /\ subs' = [subs EXCEPT ![i].open = FALSE, ![i].queue = <<>>,
                                    ![i].waiter = 0]
            /\ last' = Call("wait_for_message", c, <<>>, TRUE, message, <<>>)
    /\ waiting' = [waiting EXCEPT ![c] = 0]
    /\ UNCHANGED <<clients, uuidCount, MESSAGE_SENDER, MESSAGE_RECEIVER, chans,
                   MESSAGE_FORWARDERS, MESSAGE_FORWARDERS_bm, created,
                   returned, guiVars, threadVars>>

\* --------------------------------------------------------- specifications
\* The hub: the message channel, the forwarders and their consumers
Next ==
    \/ initialize_message_channel
    \/ \E c \in Clients : get_message_receiver(c)
    \/ \E m \in BroadcastInputs : broadcast_message(m)
    \/ \E i \in DOMAIN subs : recv(i)
    \/ \E i \in DOMAIN subs : drop_receiver(i)
    \/ \E c \in Clients : wait_for_message_begin(c)
    \/ \E c \in Clients : wait_for_message_end(c)

Spec == Init /\ [][Next]_vars

\* Waiting consumers while time passes: the sleep of a wait_for_message call
\* that has reached its select! elapses (client.rs:464), so the call goes on
\* to return; meanwhile receivers are taken (each one probes the waiters'
\* queues) and dropped
NextWait ==
    \/ initialize_message_channel
    \/ \E c \in Clients : get_message_receiver(c)
    \/ \E i \in DOMAIN subs : recv(i)
    \/ \E i \in DOMAIN subs : drop_receiver(i)
    \/ \E c \in Clients : wait_for_message_begin(c)
    \/ \E c \in Clients : wait_for_message_end(c)

SpecWait ==
    Init /\ [][NextWait]_vars
         /\ \A c \in Clients : WF_vars(wait_for_message_end(c))

\* Clients that publish on their active topic while receivers come and go
\* The registry of get_message_receiver: receivers are made one call after
\* another, read and dropped
NextRegistry ==
    \/ initialize_message_channel
    \/ \E c \in Clients : get_message_receiver_upto(c, MaxRegistry)
    \/ \E i \in DOMAIN subs : recv(i)
    \/ \E i \in DOMAIN subs : drop_receiver(i)

SpecRegistry == Init /\ [][NextRegistry]_vars

\* Direct callers of broadcast_message, with probes and messages that look
\* like probes among what they send, and subscribers that come and go
NextBroadcast ==
    \/ initialize_message_channel
    \/ \E c \in Clients : get_message_receiver(c)
    \/ \E m \in BroadcastInputs : broadcast_message(m)
    \/ \E i \in DOMAIN subs : drop_receiver(i)

SpecBroadcast == Init /\ [][NextBroadcast]_vars

NextSend ==
    \/ initialize_message_channel
    \/ \E c \in Clients : create_topic(c, <<"a">>)
    \/ \E c \in Clients, u \in Authors, m \in Contents, s \in Sequences :
            send_message(c, u, m, s)
    \/ \E c \in Clients : get_message_receiver(c)
    \/ \E i \in DOMAIN subs : drop_receiver(i)

SpecSend == Init /\ [][NextSend]_vars

\* The topic directory: a ticket made by create_topic is passed to join_topic
NextTopics ==
    \/ \E c \in Clients : initialize_network(c)
    \/ \E c \in Clients, n \in TopicNames : create_topic(c, n)
    \/ \E c \in Clients, t \in { r.ticket : r \in created } : join_topic(c, t)

SpecTopics == Init /\ [][NextTopics]_vars

\* The ticket decoder on tickets of any origin
NextTickets ==
    \/ \E c \in Clients : create_topic(c, <<"a">>)
    \/ \E c \in Clients,
          t \in ForeignTickets \cup { r.ticket : r \in created } :
            join_topic(c, t)

SpecTickets == Init /\ [][NextTickets]_vars

\* Clients with and without an endpoint that create and join, with tickets
\* of any origin
NextAnnounce ==
    \/ \E c \in Clients : initialize_network(c)
    \/ \E c \in Clients : create_topic(c, <<"a">>)
    \/ \E c \in Clients,
          t \in ForeignTickets \cup { r.ticket : r \in created } :
            join_topic(c, t)

SpecAnnounce == Init /\ [][NextAnnounce]_vars

\* Two clients that create topics and send; the first may have an endpoint
\* and joins, with tickets that are typed or come from create_topic
NextClients ==
    \/ initialize_network(1)
    \/ initialize_message_channel
    \/ \E c \in Clients : create_topic(c, <<"a">>)
    \/ \E t \in TypedTickets \cup { r.ticket : r \in created } :
            join_topic(1, t)
    \/ \E c \in Clients, m \in Contents, s \in Sequences :
            send_message(c, "alice", m, s)

SpecClients == Init /\ [][NextClients]_vars

\* The test scenario: a client creates a topic, sends on it and waits for
\* a message
NextReply ==
    \/ initialize_message_channel
    \/ \E c \in Clients : create_topic(c, <<"a">>)
    \/ \E c \in Clients, u \in Authors, m \in Contents, s \in Sequences :
            send_message(c, u, m, s)
    \/ \E c \in Clients : wait_for_message_begin(c)
    \/ \E c \in Clients : wait_for_message_end(c)

SpecReply == Init /\ [][NextReply]_vars

\* ------------------------------------------------- the hub, thread by thread
\* The statics are `static mut` read and written inside `unsafe` blocks with
\* no lock, so calls made on different threads interleave between any two
\* accesses.  A thread at position p has run the call up to p.

Goto(t, p) == pc' = [pc EXCEPT ![t] = p]
SetLocal(t, l) == tl' = [tl EXCEPT ![t] = l]

\* initialize_message_channel, client.rs:72-75: make the channel and store
\* its sender in MESSAGE_SENDER
imc_call(t) ==
    /\ pc[t] = "idle"
    /\ Len(chans) < MaxInit
    /\ chans' = Append(chans, NewChannel(TRUE))
    /\ MESSAGE_SENDER' = Some(Len(chans) + 1)
    /\ SetLocal(t, [IdleLocals EXCEPT !.ch = Len(chans) + 1])
    /\ Goto(t, "imc_check")
    /\ UNCHANGED <<clients, uuidCount, MESSAGE_RECEIVER, MESSAGE_FORWARDERS,
                   MESSAGE_FORWARDERS_bm, subs, waiting, created, returned,
                   guiVars, last>>

\* client.rs:79: MESSAGE_RECEIVER.is_none(); when it is not, the call returns
\* and its receiver is dropped (client.rs:87-88)
imc_check(t) ==
    /\ pc[t] = "imc_check"
    /\ IF MESSAGE_RECEIVER = None
       THEN /\ Goto(t, "imc_store")
            /\ UNCHANGED <<chans, tl>>
       ELSE /\ chans' = [chans EXCEPT ![tl[t].ch] = NewChannel(FALSE)]
            /\ SetLocal(t, IdleLocals)
            /\ Goto(t, "idle")
    /\ UNCHANGED <<clients, uuidCount, MESSAGE_SENDER, MESSAGE_RECEIVER,
                   MESSAGE_FORWARDERS, MESSAGE_FORWARDERS_bm, subs, waiting,
                   created, returned, guiVars, last>>

\* client.rs:80: MESSAGE_RECEIVER = Some(receiver); the receiver the static
\* held, if another thread stored one meanwhile, is dropped by the assignment
imc_store(t) ==
    /\ pc[t] = "imc_store"
    /\ MESSAGE_RECEIVER' = Some(tl[t].ch)
    /\ chans' = IF MESSAGE_RECEIVER = None THEN chans
                ELSE [chans EXCEPT ![MESSAGE_RECEIVER[1]] = NewChannel(FALSE)]
    /\ SetLocal(t, IdleLocals)
    /\ Goto(t, "idle")
    /\ UNCHANGED <<clients, uuidCount, MESSAGE_SENDER, MESSAGE_FORWARDERS,
                   MESSAGE_FORWARDERS_bm, subs, waiting, created, returned,
                   guiVars, last>>

\* get_message_receiver, client.rs:100-103: make the channel, read
\* MESSAGE_SENDER; return None when it is empty
gmr_call(t) ==
    /\ pc[t] = "idle"
    /\ IF MESSAGE_SENDER = None
       THEN UNCHANGED <<subs, pc, tl>>
       ELSE /\ Len(subs) < MaxSubs
            /\ subs' = Append(subs, NewSubscriber(None, 0))
            /\ SetLocal(t, [IdleLocals EXCEPT !.sub = Len(subs) + 1])
            /\ Goto(t, "gmr_isnone")
    /\ UNCHANGED <<clients, uuidCount, MESSAGE_SENDER, MESSAGE_RECEIVER, chans,
                   MESSAGE_FORWARDERS, MESSAGE_FORWARDERS_bm, waiting,
                   created, returned, guiVars,
                   last>>

\* client.rs:110: MESSAGE_FORWARDERS.is_none()
gmr_isnone(t) ==
    /\ pc[t] = "gmr_isnone"
    /\ Goto(t, IF MESSAGE_FORWARDERS = None THEN "gmr_init" ELSE "gmr_retain")
    /\ UNCHANGED <<clients, uuidCount, hubVars, waiting, created, returned,
                   guiVars, last, tl>>

\* client.rs:111: MESSAGE_FORWARDERS = Some(Vec::new()); the assignment drops
\* whatever list the static held
gmr_init(t) ==
    /\ pc[t] = "gmr_init"
    /\ MESSAGE_FORWARDERS' = Some(<<>>)
    /\ Goto(t, "gmr_retain")
    /\ UNCHANGED <<clients, uuidCount, MESSAGE_SENDER, MESSAGE_RECEIVER, chans,
                   MESSAGE_FORWARDERS_bm, subs, waiting, created, returned,
                   guiVars, last, tl>>

\* client.rs:117-129: forwarders.retain(...) with a probe sent to each
gmr_retain(t) ==
    /\ pc[t] = "gmr_retain"
    /\ \A i \in Range(Forwarders(MESSAGE_FORWARDERS)) : CanSend(subs[i])
    /\ subs' = SendAll(subs, Forwarders(MESSAGE_FORWARDERS), PingMessage)
    /\ MESSAGE_FORWARDERS' =
            Some(Retained(subs, Forwarders(MESSAGE_FORWARDERS)))
    /\ Goto(t, "gmr_push")
    /\ UNCHANGED <<clients, uuidCount, MESSAGE_SENDER, MESSAGE_RECEIVER, chans,
                   MESSAGE_FORWARDERS_bm, waiting, created, returned, guiVars,
                   last, tl>>

\* client.rs:132, first half of Vec::push: read the length and the buffer
gmr_push(t) ==
    /\ pc[t] = "gmr_push"
    /\ SetLocal(t, [tl[t] EXCEPT !.snap = Forwarders(MESSAGE_FORWARDERS)])
    /\ Goto(t, "gmr_store")
    /\ UNCHANGED <<clients, uuidCount, hubVars, waiting, created, returned,
                   guiVars, last>>

\* client.rs:132, second half of Vec::push: write the element and the new
\* length; client.rs:138: return the receiver
gmr_store(t) ==
    /\ pc[t] = "gmr_store"
    /\ MESSAGE_FORWARDERS' = Some(Append(tl[t].snap, tl[t].sub))
    /\ SetLocal(t, IdleLocals)
    /\ Goto(t, "idle")
    /\ UNCHANGED <<clients, uuidCount, MESSAGE_SENDER, MESSAGE_RECEIVER, chans,
                   MESSAGE_FORWARDERS_bm, subs, waiting, created, returned,
                   guiVars, last>>

\* broadcast_message, client.rs:148-157: the probe filter
bm_call(t, m) ==
    /\ pc[t] = "idle"
    /\ MainQueueRoom
    /\ IF IsProbe(m)
       THEN UNCHANGED <<pc, tl>>
       ELSE /\ SetLocal(t, [IdleLocals EXCEPT !.msg = Some(m)])
            /\ Goto(t, "bm_main")
    /\ UNCHANGED <<clients, uuidCount, hubVars, waiting, created, returned,
                   guiVars, last>>

\* client.rs:159-163: the send to the main channel
bm_main(t) ==
    /\ pc[t] = "bm_main"
    /\ MESSAGE_SENDER # None => CanSend(chans[MESSAGE_SENDER[1]])
    /\ chans' = SendMain(chans, MESSAGE_SENDER, tl[t].msg[1])
    /\ Goto(t, "bm_forward")
    /\ UNCHANGED <<clients, uuidCount, MESSAGE_SENDER, MESSAGE_RECEIVER,
                   MESSAGE_FORWARDERS, MESSAGE_FORWARDERS_bm, subs, waiting,
                   created, returned, guiVars, last, tl>>

\* client.rs:166-190: the sends to broadcast_message's own forwarders
bm_forward(t) ==
    /\ pc[t] = "bm_forward"
    /\ \A i \in Range(Forwarders(MESSAGE_FORWARDERS_bm)) : CanSend(subs[i])
    /\ IF MESSAGE_FORWARDERS_bm # None
       THEN /\ subs' = SendAll(subs, MESSAGE_FORWARDERS_bm[1], tl[t].msg[1])
            /\ MESSAGE_FORWARDERS_bm' =
                    Some(Retained(subs, MESSAGE_FORWARDERS_bm[1]))
       ELSE UNCHANGED <<subs, MESSAGE_FORWARDERS_bm>>
    /\ SetLocal(t, IdleLocals)
    /\ Goto(t, "idle")
    /\ UNCHANGED <<clients, uuidCount, MESSAGE_SENDER, MESSAGE_RECEIVER, chans,
                   MESSAGE_FORWARDERS, waiting, created, returned, guiVars,
                   last>>

\* the holder of receiver i drops it, once the call that made it has returned
conc_drop_receiver(i) ==
    /\ subs[i].open
    /\ \A t \in Threads : tl[t].sub # i
    /\ subs' = [subs EXCEPT ![i].open = FALSE, ![i].queue = <<>>]
    /\ UNCHANGED <<clients, uuidCount, MESSAGE_SENDER, MESSAGE_RECEIVER, chans,
                   MESSAGE_FORWARDERS, MESSAGE_FORWARDERS_bm, waiting,
                   created, returned, guiVars,
                   last, threadVars>>

\* the messages the threads broadcast: a probe and an ordinary message
ThreadMessages ==
    { PingMessage, ChatMessage(Ping, "alice", <<"hello">>, ForeignHash, 1) }

NextConc ==
    \/ \E t \in Threads : imc_call(t)
    \/ \E t \in Threads : imc_check(t)
    \/ \E t \in Threads : imc_store(t)
    \/ \E t \in Threads : gmr_call(t)
    \/ \E t \in Threads : gmr_isnone(t)
    \/ \E t \in Threads : gmr_init(t)
    \/ \E t \in Threads : gmr_retain(t)
    \/ \E t \in Threads : gmr_push(t)
    \/ \E t \in Threads : gmr_store(t)
    \/ \E t \in Threads, m \in ThreadMessages : bm_call(t, m)
    \/ \E t \in Threads : bm_main(t)
    \/ \E t \in Threads : bm_forward(t)
    \/ \E i \in DOMAIN subs : conc_drop_receiver(i)

SpecConc == Init /\ [][NextConc]_vars

\* the steps of a call that thread t has begun
Running(t) ==
    \/ imc_check(t) \/ imc_store(t)
    \/ gmr_isnone(t) \/ gmr_init(t) \/ gmr_retain(t)
    \/ gmr_push(t) \/ gmr_store(t)
    \/ bm_main(t) \/ bm_forward(t)

\* the threads with a scheduler that keeps running every thread that can take
\* a step; no receiver is ever read, receivers are only dropped
SpecConcFair ==
    Init /\ [][NextConc]_vars /\ \A t \in Threads : WF_vars(Running(t))

\* ------------------------------------------- the GUI application (main.rs)
\* Each instance is the iced application IrohChat.  A user event is taken
\* when the screen on display has the widget that emits it (fn view); the
\* result of a Command::perform is handed to update at some later step.
\* main() gives each instance one channel, whose two ends stay in the statics
\* MESSAGE_SENDER and MESSAGE_RECEIVER of main.rs for the whole run.

\* what the user types
GuiUsernames == { <<" ">>, <<"b", "o", "b">> }
GuiTopicNames == { <<"a">> }
MessageTexts == { <<"h", "i">> }

\* str::trim
RECURSIVE TrimStart(_)
TrimStart(s) ==
    IF s # <<>> /\ Head(s) = " " THEN TrimStart(Tail(s)) ELSE s

RECURSIVE TrimEnd(_)
TrimEnd(s) ==
    IF s # <<>> /\ s[Len(s)] = " "
    THEN TrimEnd(SubSeq(s, 1, Len(s) - 1))
    ELSE s

Trim(s) == TrimEnd(TrimStart(s))

\* the k-th UUID drawn by a GUI instance; the UUIDs below it are node ids
GuiUuidString(k) == UuidString(Cardinality(Apps) + k)

Screen(g) == apps[g].input_state.screen

\* IrohChat::get_username: every variant of InputState has a username
get_username(g) == Some(apps[g].input_state.username)

\* a GUI event and what update was given with it
Event(op, g, arg) == Call(op, g, arg, TRUE, <<>>, <<>>)

\* what no GUI event touches
clientVars == <<clients, uuidCount, hubVars, waiting, created, returned,
               threadVars>>

\* Message::UsernameChanged: the text input of the welcome screen
UsernameChanged(g, username) ==
    /\ Screen(g) = "Welcome"
    /\ apps' = [apps EXCEPT ![g].input_state.username = username]
    /\ last' = Event("UsernameChanged", g, username)
    /\ UNCHANGED <<inflight, guiChannel, guiUuid, clipboard, clientVars>>

\* Message::TopicNameChanged: the text input of the create-topic screen
TopicNameChanged(g, topic_name) ==
    /\ Screen(g) = "CreateTopic"
    /\ apps' = [apps EXCEPT ![g].input_state.topic_name = topic_name]
    /\ last' = Event("TopicNameChanged", g, topic_name)
    /\ UNCHANGED <<inflight, guiChannel, guiUuid, clipboard, clientVars>>

\* Message::TicketChanged: the text input of the join-topic screen
TicketChanged(g, ticket) ==
    /\ Screen(g) = "JoinTopic"
    /\ apps' = [apps EXCEPT ![g].input_state.ticket = ticket]
    /\ last' = Event("TicketChanged", g, ticket)
    /\ UNCHANGED <<inflight, guiChannel, guiUuid, clipboard, clientVars>>

\* Message::MessageChanged: the text input of the chat room
MessageChanged(g, message) ==
    /\ Screen(g) = "ChatRoom"
    /\ apps' = [apps EXCEPT ![g].input_state.message = message]
    /\ last' = Event("MessageChanged", g, message)
    /\ UNCHANGED <<inflight, guiChannel, guiUuid, clipboard, clientVars>>

\* Message::SubmitUsername
SubmitUsername(g) ==
    /\ Screen(g) = "Welcome"
    /\ apps' = IF Trim(apps[g].input_state.username) # <<>>
               THEN [apps EXCEPT ![g].input_state =
                        InputState("MainMenu", apps[g].input_state.username,
                                   <<>>, <<>>, <<>>)]
               ELSE apps
    /\ last' = Event("SubmitUsername", g, <<>>)
    /\ UNCHANGED <<inflight, guiChannel, guiUuid, clipboard, clientVars>>

\* Message::CreateTopicSelected
CreateTopicSelected(g) ==
    /\ Screen(g) = "MainMenu"
    /\ apps' = [apps EXCEPT ![g].input_state =
                    InputState("CreateTopic", apps[g].input_state.username,
                               <<>>, <<>>, <<>>)]
    /\ last' = Event("CreateTopicSelected", g, <<>>)
    /\ UNCHANGED <<inflight, guiChannel, guiUuid, clipboard, clientVars>>

\* Message::JoinTopicSelected
JoinTopicSelected(g) ==
    /\ Screen(g) = "MainMenu"
    /\ apps' = [apps EXCEPT ![g].input_state =
                    InputState("JoinTopic", apps[g].input_state.username,
                               <<>>, <<>>, <<>>)]
    /\ last' = Event("JoinTopicSelected", g, <<>>)
    /\ UNCHANGED <<inflight, guiChannel, guiUuid, clipboard, clientVars>>

\* a variant of LeaveRoom that also forgets the ids seen so far
LeaveRoomForgetting(app, username) ==
    [app EXCEPT
        !.input_state = InputState("MainMenu", username, <<>>, <<>>, <<>>),
        !.current_topic = None,
        !.messages = <<>>,
        !.processed_message_ids = {}]

\* a variant of LeaveRoom that leaves the screen on display
LeaveRoomStaying(app, username) ==
    [app EXCEPT !.current_topic = None, !.messages = <<>>]

\* main.rs:234-238: what Message::BackToMenu makes of the instance
LeaveRoom(app, username) ==
    [app EXCEPT
        !.input_state = InputState("MainMenu", username, <<>>, <<>>, <<>>),
        !.current_topic = None,
        !.messages = <<>>]

\* Message::BackToMenu: the Back / Leave button of the four inner screens
BackToMenu(g) ==
    /\ Screen(g) \in {"CreateTopic", "JoinTopic", "TopicCreated", "ChatRoom"}
    /\ apps' = [apps EXCEPT ![g] = LeaveRoom(@, get_username(g)[1])]
    /\ last' = Event("BackToMenu", g, <<>>)
    /\ UNCHANGED <<inflight, guiChannel, guiUuid, clipboard, clientVars>>

\* main.rs:252: format!("{}-{}", topic_name, Uuid::new_v4())
GuiTopicHash(topic_name, uuid) == FormatHash(topic_name, uuid)

\* main.rs:255: format!("ticket-{}-{}", topic_name, topic_hash)
GuiTicket(topic_name, topic_hash) ==
    TicketPrefix \o topic_name \o <<Sep>> \o topic_hash

\* Message::SubmitCreateTopic: the command makes the hash and the ticket and
\* comes back as Message::TopicCreated
SubmitCreateTopic(g) ==
    LET topic_name == apps[g].input_state.topic_name
        topic_hash == GuiTopicHash(topic_name, GuiUuidString(guiUuid + 1))
        ticket == GuiTicket(topic_name, topic_hash)
    IN  /\ Screen(g) = "CreateTopic"
        /\ IF Trim(topic_name) # <<>>
           THEN /\ guiUuid < MaxGuiUuid
                /\ guiUuid' = guiUuid + 1
                /\ inflight' = [inflight EXCEPT ![g].TopicCreated = @ \cup
                        {[name |-> topic_name, ticket |-> ticket,
                          hash |-> topic_hash]}]
           ELSE UNCHANGED <<guiUuid, inflight>>
        /\ last' = Event("SubmitCreateTopic", g, topic_name)
        /\ UNCHANGED <<apps, guiChannel, clipboard, clientVars>>

\* main.rs:288: the hash the GUI reads off a ticket
GuiJoinHash(parts) == parts[Len(parts)]

\* main.rs:280-294: the decoding of a ticket by the GUI; `of` keeps the
\* ticket the result was decoded from
GuiDecodeTicket(ticket) ==
    LET parts == TicketParts(ticket)
    IN  IF StartsWith(ticket, TicketPrefix) /\ Len(parts) >= 3
        THEN [ok |-> TRUE, name |-> JoinTopicName(parts),
              hash |-> GuiJoinHash(parts), of |-> ticket]
        ELSE [ok |-> FALSE, name |-> <<>>, hash |-> <<>>, of |-> ticket]

\* Message::SubmitJoinTopic: the command decodes the ticket and comes back
\* as Message::TopicJoined
SubmitJoinTopic(g) ==
    LET ticket == apps[g].input_state.ticket
    IN  /\ Screen(g) = "JoinTopic"
        /\ inflight' = IF Trim(ticket) # <<>>
                       THEN [inflight EXCEPT ![g].TopicJoined =
                                @ \cup {GuiDecodeTicket(ticket)}]
                       ELSE inflight
        /\ last' = Event("SubmitJoinTopic", g, ticket)
        /\ UNCHANGED <<apps, guiChannel, guiUuid, clipboard, clientVars>>

\* Message::CopyTicket: the ticket on display goes to the clipboard
CopyTicket(g) ==
    /\ Screen(g) = "TopicCreated"
    /\ clipboard' = Some(apps[g].input_state.ticket)
    /\ last' = Event("CopyTicket", g, <<>>)
    /\ UNCHANGED <<apps, inflight, guiChannel, guiUuid, clientVars>>

\* Message::EnterChatRoom
EnterChatRoom(g) ==
    /\ Screen(g) = "TopicCreated"
    /\ apps' = [apps EXCEPT
            ![g].input_state = InputState("ChatRoom",
                                          apps[g].input_state.username,
                                          <<>>, <<>>, <<>>),
            ![g].current_topic = Some(apps[g].input_state.topic_name)]
    /\ last' = Event("EnterChatRoom", g, <<>>)
    /\ UNCHANGED <<inflight, guiChannel, guiUuid, clipboard, clientVars>>

\* a variant of NextSequence that leaves the counter where it was
NextSequenceSame(sequence) == sequence

\* main.rs:337: self.sequence_counter += 1
NextSequence(sequence) == sequence + 1

\* Message::SendMessage: the message goes to the list on display at once; the
\* command sleeps, sends a simulated reply and comes back as MessageSent
SendMessage_upto(g, n) ==
    LET app == apps[g]
        message_content == app.input_state.message
        sequence == app.sequence_counter
        chat_message == ChatMessage(GuiUuidString(guiUuid + 1),
                                    app.input_state.username, message_content,
                                    app.topic_hash[1], sequence)
    IN  /\ Screen(g) = "ChatRoom"
        /\ IF /\ Trim(message_content) # <<>>
              /\ app.current_topic # None
              /\ app.topic_hash # None
           THEN /\ guiUuid < n
                /\ guiUuid' = guiUuid + 1
                /\ apps' = [apps EXCEPT
                        ![g].sequence_counter = NextSequence(sequence),
                        ![g].input_state.message = <<>>,
                        ![g].messages = Append(@, chat_message),
                        ![g].processed_message_ids = @ \cup {chat_message.id}]
                /\ inflight' = [inflight EXCEPT ![g].replies = @ \cup
                        {[content |-> message_content,
                          topic_hash |-> app.topic_hash[1],
                          sequence |-> sequence]}]
                /\ last' = Event("SendMessage", g, chat_message)
           ELSE /\ last' = Event("SendMessage", g, <<>>)
                /\ UNCHANGED <<guiUuid, apps, inflight>>
        /\ UNCHANGED <<guiChannel, clipboard, clientVars>>

SendMessage(g) == SendMessage_upto(g, MaxGuiUuid)

\* main.rs:372: format!("User-{}", &uuid[..8]), uuid being a second UUID the
\* command draws for the author alone.  One step of the counter stands for
\* both UUIDs of the k-th reply; the digit of the second one is taken from
\* digits no other UUID of the model has.
AuthorDigits == <<"a", "b", "c", "d", "e", "f">>
ReplyAuthor(k) == <<"U", "s", "e", "r", "-", AuthorDigits[k]>>

\* main.rs:373: format!("Reply to: {}", message_content)
ReplyContent(message_content) ==
    <<"R", "e", "p", "l", "y", " ", "t", "o", ":", " ">> \o message_content

\* main.rs:370-377
SimulatedMessage(k, task) ==
    ChatMessage(GuiUuidString(k), ReplyAuthor(k), ReplyContent(task.content),
                task.topic_hash, task.sequence + 1)

\* main.rs:363-384: the command of SendMessage after its sleep: it sends the
\* simulated reply on the clone of MESSAGE_SENDER it was given.  The
\* Message::MessageSent it comes back as changes nothing (main.rs:469-472).
MessageSent_upto(g, task, n) ==
    LET simulated_message == SimulatedMessage(guiUuid + 1, task)
    IN  /\ task \in inflight[g].replies
        /\ guiUuid < n
        /\ guiUuid' = guiUuid + 1
        /\ guiChannel' =
                [guiChannel EXCEPT ![g] = Append(@, simulated_message)]
        /\ inflight' = [inflight EXCEPT ![g].replies = @ \ {task}]
        /\ last' = Event("MessageSent", g, simulated_message)
        /\ UNCHANGED <<apps, clipboard, clientVars>>

MessageSent(g, task) == MessageSent_upto(g, task, MaxGuiUuid)

\* Message::NetworkInitialized(Ok(node_id))
NetworkInitialized(g, node_id) ==
    /\ node_id \in inflight[g].NetworkInitialized
    /\ inflight' = [inflight EXCEPT ![g].NetworkInitialized = @ \ {node_id}]
    /\ apps' = [apps EXCEPT ![g].node_id = Some(node_id)]
    /\ last' = Event("NetworkInitialized", g, node_id)
    /\ UNCHANGED <<guiChannel, guiUuid, clipboard, clientVars>>

\* Message::TopicCreated(Ok((topic, ticket, hash))); the command of
\* SubmitCreateTopic never returns Err
TopicCreated(g, result) ==
    /\ result \in inflight[g].TopicCreated
    /\ inflight' = [inflight EXCEPT ![g].TopicCreated = @ \ {result}]
    /\ apps' = [apps EXCEPT
            ![g].current_topic = Some(result.name),
            ![g].topic_ticket = Some(result.ticket),
            ![g].topic_hash = Some(result.hash),
            ![g].subscribed_topics = MapInsert(@, result.name, result.hash),
            ![g].input_state = InputState("TopicCreated", get_username(g)[1],
                                          result.name, result.ticket, <<>>)]
    /\ last' = Call("TopicCreated", g, <<>>, TRUE, result, <<>>)
    /\ UNCHANGED <<guiChannel, guiUuid, clipboard, clientVars>>

\* Message::TopicJoined(result)
TopicJoined(g, result) ==
    /\ result \in inflight[g].TopicJoined
    /\ inflight' = [inflight EXCEPT ![g].TopicJoined = @ \ {result}]
    /\ apps' = IF result.ok
               THEN [apps EXCEPT
                        ![g].current_topic = Some(result.name),
                        ![g].topic_hash = Some(result.hash),
                        ![g].subscribed_topics =
                            MapInsert(@, result.name, result.hash),
                        ![g].input_state =
                            InputState("ChatRoom", get_username(g)[1],
                                       <<>>, <<>>, <<>>)]
               ELSE [apps EXCEPT
                        ![g].error = Some("Invalid ticket format")]
    /\ last' = Call("TopicJoined", g, result.of, result.ok,
                    [name |-> result.name, hash |-> result.hash], <<>>)
    /\ UNCHANGED <<guiChannel, guiUuid, clipboard, clientVars>>

\* a variant of AlreadyProcessed that looks for the whole message in the
\* list on display
AlreadyDisplayed(app, message) == message \in Range(app.messages)

\* main.rs:462: processed_message_ids.contains(&message.id)
AlreadyProcessed(app, message) == message.id \in app.processed_message_ids

\* a variant of Received that does not record the id
ReceivedUnrecorded(app, message) ==
    IF ~AlreadyProcessed(app, message)
    THEN [app EXCEPT !.messages = Append(@, message)]
    ELSE app

\* main.rs:460-467: what Message::MessageReceived(message) makes of the
\* instance
Received(app, message) ==
    IF ~AlreadyProcessed(app, message)
    THEN [app EXCEPT
            !.messages = Append(@, message),
            !.processed_message_ids = @ \cup {message.id}]
    ELSE app

\* Message::MessageReceived(message), the message being one Tick has taken
\* from the channel
MessageReceived(g, message) ==
    /\ message \in inflight[g].MessageReceived
    /\ inflight' = [inflight EXCEPT ![g].MessageReceived = @ \ {message}]
    /\ apps' = [apps EXCEPT ![g] = Received(@, message)]
    /\ last' = Event("MessageReceived", g, message)
    /\ UNCHANGED <<guiChannel, guiUuid, clipboard, clientVars>>

\* a variant of Drained that takes the first pending message only
DrainedFirst(queue) == IF queue = <<>> THEN {} ELSE {Head(queue)}

\* main.rs:482-487: while let Ok(message) = receiver.try_recv(): every
\* message the channel holds, each wrapped in a command of its own
Drained(queue) == Range(queue)

\* Message::Tick, emitted every second while the chat room is on display
\* (fn subscription): try_recv empties the channel, each message comes back
\* as a Message::MessageReceived of its own
Tick(g) ==
    /\ Screen(g) = "ChatRoom"
    /\ inflight' = [inflight EXCEPT ![g].MessageReceived =
                        @ \cup Drained(guiChannel[g])]
    /\ guiChannel' = [guiChannel EXCEPT ![g] = <<>>]
    /\ last' = Event("Tick", g, <<>>)
    /\ UNCHANGED <<apps, guiUuid, clipboard, clientVars>>

\* the ticket a user can paste into the ticket field
Pasted == Range(clipboard)

\* One instance of the GUI from its start
NextGui ==
    \/ \E username \in GuiUsernames : UsernameChanged(1, username)
    \/ SubmitUsername(1)
    \/ CreateTopicSelected(1)
    \/ JoinTopicSelected(1)
    \/ BackToMenu(1)
    \/ \E topic_name \in GuiTopicNames : TopicNameChanged(1, topic_name)
    \/ \E ticket \in Pasted : TicketChanged(1, ticket)
    \/ \E message \in MessageTexts : MessageChanged(1, message)
    \/ SubmitCreateTopic(1)
    \/ SubmitJoinTopic(1)
    \/ CopyTicket(1)
    \/ EnterChatRoom(1)
    \/ SendMessage(1)
    \/ \E task \in inflight[1].replies : MessageSent(1, task)
    \/ \E node_id \in inflight[1].NetworkInitialized :
            NetworkInitialized(1, node_id)
    \/ \E result \in inflight[1].TopicCreated : TopicCreated(1, result)
    \/ \E result \in inflight[1].TopicJoined : TopicJoined(1, result)
    \/ \E message \in inflight[1].MessageReceived : MessageReceived(1, message)
    \/ Tick(1)

SpecGui == Init /\ [][NextGui]_vars

\* the ids a message of an instance can have
GuiMessageIds == { GuiUuidString(k) : k \in 1..MaxChatUuid }

\* the command Tick made for the message of this id hands it to update
Deliver(g, id) ==
    \E message \in inflight[g].MessageReceived :
        message.id = id /\ MessageReceived(g, message)

\* The chat room of one instance: the user joins with a typed ticket, sends,
\* leaves and comes back, while replies arrive
NextChat ==
    \/ \E username \in GuiUsernames : UsernameChanged(1, username)
    \/ SubmitUsername(1)
    \/ JoinTopicSelected(1)
    \/ \E ticket \in TypedTickets : TicketChanged(1, ticket)
    \/ SubmitJoinTopic(1)
    \/ \E result \in inflight[1].TopicJoined : TopicJoined(1, result)
    \/ BackToMenu(1)
    \/ \E message \in MessageTexts : MessageChanged(1, message)
    \/ SendMessage_upto(1, MaxChatUuid)
    \/ \E task \in inflight[1].replies : MessageSent_upto(1, task, MaxChatUuid)
    \/ Tick(1)
    \/ \E id \in GuiMessageIds : Deliver(1, id)

\* ... under the iced runtime: the timer of fn subscription keeps emitting
\* Tick while the chat room is on display, and every command Tick has made
\* (a future that is ready at once) comes back as its Message
SpecChat ==
    /\ Init /\ [][NextChat]_vars
    /\ WF_vars(Tick(1))
    /\ \A id \in GuiMessageIds : WF_vars(Deliver(1, id))

\* Two instances: one creates a topic, its ticket reaches the other through
\* the clipboard or is typed there
NextGuiPair ==
    \E g \in Apps :
        \/ \E username \in GuiUsernames : UsernameChanged(g, username)
        \/ SubmitUsername(g)
        \/ CreateTopicSelected(g)
        \/ JoinTopicSelected(g)
        \/ \E topic_name \in GuiTopicNames : TopicNameChanged(g, topic_name)
        \/ \E ticket \in TypedTickets \cup Pasted : TicketChanged(g, ticket)
        \/ SubmitCreateTopic(g)
        \/ SubmitJoinTopic(g)
        \/ CopyTicket(g)
        \/ \E result \in inflight[g].TopicCreated : TopicCreated(g, result)
        \/ \E result \in inflight[g].TopicJoined : TopicJoined(g, result)

SpecGuiPair == Init /\ [][NextGuiPair]_vars

\* the messages handed to update as Message::MessageReceived when the events
\* are of any origin: two ids, each on two topics
ForeignMessages ==
    { ChatMessage(GuiUuidString(k), <<"e", "v", "e">>, <<"h", "i">>,
                  topic_hash, 0) :
        k \in {1, 2}, topic_hash \in {<<"a", "-", "1">>, ForeignHash} }

\* Message::MessageReceived(message) with a message of any origin
MessageReceivedAny(g, message) ==
    /\ apps' = [apps EXCEPT ![g] = Received(@, message)]
    /\ last' = Event("MessageReceived", g, message)
    /\ UNCHANGED <<inflight, guiChannel, guiUuid, clipboard, clientVars>>

\* The dedup filter of one instance under MessageReceived events of any
\* content, while the user creates topics, enters chat rooms and leaves them
NextDedup ==
    \/ \E username \in GuiUsernames : UsernameChanged(1, username)
    \/ SubmitUsername(1)
    \/ CreateTopicSelected(1)
    \/ \E topic_name \in GuiTopicNames : TopicNameChanged(1, topic_name)
    \/ SubmitCreateTopic(1)
    \/ \E result \in inflight[1].TopicCreated : TopicCreated(1, result)
    \/ EnterChatRoom(1)
    \/ BackToMenu(1)
    \/ \E message \in ForeignMessages : MessageReceivedAny(1, message)

SpecDedup == Init /\ [][NextDedup]_vars

\* ------------------------------------------------------------ properties
Registry == Range(Forwarders(MESSAGE_FORWARDERS))

\* the main channel MESSAGE_SENDER feeds can take a message
MainOpen == MESSAGE_SENDER # None /\ SendOk(chans[MESSAGE_SENDER[1]])

\* C1: a broadcast_message call with a non-probe message appends that message
\* exactly once to the queue of every registered subscriber whose receiver is
\* still open.
C1_BroadcastReachesSubscribers ==
    [][last'.bcast # <<>> =>
          \A i \in Registry :
              subs[i].open =>
                  subs'[i].queue = Append(subs[i].queue, last'.bcast[1])]_vars

\* C2: no consumer ever reads a liveness probe from a receiver returned by
\* get_message_receiver, neither with recv nor through wait_for_message.
C2_NoProbeRead ==
    last.op \in {"recv", "wait_for_message"} =>
        (last.val = None \/ ~IsProbe(last.val[1]))

\* C6: once broadcast_message has run, no subscriber whose receiver has been
\* dropped is left in the registry.
C6_DeadReapedByBroadcast ==
    last.bcast # <<>> => \A i \in Registry : subs[i].open

\* C3: the queue of a subscriber that subscribed for topic identifier A holds
\* no message whose topic_hash differs from A.
C3_TopicIsolation ==
    \A i \in DOMAIN subs :
        subs[i].filter # None =>
            \A k \in 1..Len(subs[i].queue) :
                subs[i].queue[k].topic_hash = subs[i].filter[1]

\* C7: send_message on a client with an active topic returns Ok, and the
\* broadcast_message call it makes returns, in every state of the hub.
C7_SendNeverFails ==
    (last.op = "send_message" /\ clients[last.c].topic_hash # None) =>
        (last.ok /\ last.bcast = <<last.arg>>)

\* C7 witness: a send that returned Ok although the main channel was closed
\* and a subscriber whose receiver had been dropped was still registered.
C7_Witness ==
    /\ last.op = "send_message" /\ last.ok
    /\ MESSAGE_SENDER # None /\ ~MainOpen
    /\ \E i \in Registry : ~subs[i].open

\* no create_topic or join_topic call has succeeded on client c yet: each
\* success leaves an entry in subscribed_topics
NoTopicYet(c) == clients[c].subscribed_topics = EmptyMap

\* C8: send_message on a client on which no create_topic or join_topic call
\* has succeeded returns an error and enqueues nothing, neither on the main
\* channel nor on a subscriber queue.
C8_SendWithoutTopic ==
    [][(last'.op = "send_message" /\ NoTopicYet(last'.c)) =>
          (~last'.ok /\ chans' = chans /\ subs' = subs)]_vars

\* C8 witness: a refused send while the main channel and a subscriber were
\* open to take a message.
C8_Witness ==
    /\ last.op = "send_message" /\ ~last.ok /\ NoTopicYet(last.c)
    /\ MainOpen
    /\ \E i \in Registry : subs[i].open

\* the create_topic results whose ticket the last join_topic call was given
\* and whose topic name holds no separator
JoinedFrom ==
    { r \in created : r.ticket = last.arg /\ ~HasSep(r.name) }

C10_JoinReturnsCreatorsName ==
    (last.op = "join_topic" /\ last.ok) =>
        \A r \in JoinedFrom :
            /\ last.val.name = r.name
            /\ r.name \in DOMAIN clients[last.c].subscribed_topics

\* ------------------------------------------- the ticket codec, continued
\* the last join_topic call was given a ticket with the prefix "ticket-"
LastTicketPrefixed == StartsWith(last.arg, TicketPrefix)

\* the '-'-separated segments of the ticket the last join_topic call was given
LastTicketParts == TicketParts(last.arg)

\* C12: join_topic returns an error for every ticket that does not start
\* with the prefix "ticket-".
C12_NonTicketRejected ==
    (last.op = "join_topic" /\ ~LastTicketPrefixed) => ~last.ok

\* C13: on a ticket that starts with "ticket-", join_topic returns an error
\* if the ticket splits on '-' into fewer than three segments and succeeds
\* if it splits into at least three.
C13_SegmentsDecide ==
    (last.op = "join_topic" /\ LastTicketPrefixed) =>
        (last.ok <=> Len(LastTicketParts) >= 3)

\* C13 witness: "ticket-abc", two segments, has been refused on a client
\* that had joined with a three-segment ticket before.
C13_Witness ==
    /\ last.op = "join_topic" /\ ~last.ok
    /\ LastTicketPrefixed /\ Len(LastTicketParts) = 2
    /\ last.arg = TicketPrefix \o <<"a", "b", "c">>
    /\ clients[last.c].topic_ticket = Some(TicketPrefix \o <<"a", "-", "b">>)

\* C14: for a ticket with the prefix and at least three segments, join_topic
\* returns as identifier exactly the last segment of the ticket, and as name
\* the segments between the prefix and the last one rejoined with '-'.
C14_JoinReturnsLastSegment ==
    (last.op = "join_topic" /\ last.ok /\ LastTicketPrefixed) =>
        /\ last.val.hash = LastTicketParts[Len(LastTicketParts)]
        /\ last.val.name =
               Join(SubSeq(LastTicketParts, 2, Len(LastTicketParts) - 1), Sep)

C16_CreatePostState ==
    last.op = "create_topic" =>
        /\ last.ok
        /\ last.val.name = last.arg
        /\ StartsWith(last.val.ticket, TicketPrefix)
        /\ last.arg \in DOMAIN clients[last.c].subscribed_topics
        /\ clients[last.c].subscribed_topics[last.arg] = last.val.hash
        /\ clients[last.c].topic_hash = Some(last.val.hash)
        /\ clients[last.c].topic_ticket = Some(last.val.ticket)

\* C16 witness: the client has created a topic under a name it had created a
\* topic under before (no other client has a directory entry, so the earlier
\* result is this client's), and its directory holds the new entry alone.
C16_Witness ==
    /\ last.op = "create_topic"
    /\ \E r \in created : r.name = last.arg /\ r.hash # last.val.hash
    /\ \A a \in Clients \ {last.c} : NoTopicYet(a)
    /\ DOMAIN clients[last.c].subscribed_topics = {last.arg}

\* C17: a join_topic call that follows a successful join_topic call of the
\* same client with the same ticket returns the same (name, identifier) and
\* leaves topic_ticket, topic_hash and subscribed_topics as they were.
C17_JoinIdempotent ==
    [][(/\ last.op = "join_topic" /\ last.ok
        /\ last'.op = "join_topic"
        /\ last'.c = last.c /\ last'.arg = last.arg) =>
          (/\ last'.ok /\ last'.val = last.val
           /\ clients'[last.c] = clients[last.c])]_vars


\* the messages of client c's active topic that the main channel holds: what
\* c has sent on the topic it created
SentOnTopic(c) ==
    IF MESSAGE_SENDER = None \/ clients[c].topic_hash = None THEN {}
    ELSE { m \in Range(chans[MESSAGE_SENDER[1]].queue) :
                m.topic_hash = clients[c].topic_hash[1] }

\* C20: when a client that created a topic and sent a message with sequence
\* s on it waits for a message, the wait returns a message, and that message
\* carries the topic's hash and sequence s + 1.
C20_ResponseReceived ==
    last.op = "wait_for_message" =>
        \A m \in SentOnTopic(last.c) :
            /\ last.val # None
            /\ last.val[1].topic_hash = m.topic_hash
            /\ last.val[1].sequence = m.sequence + 1

\* ------------------------------------------------- the GUI, properties
\* the instances that hold the ticket the last TopicJoined result was decoded
\* from as the ticket of a topic they created
CreatorsOfJoined ==
    { h \in Apps \ {last.c} : apps[h].topic_ticket = Some(last.arg) }

\* C11: when an instance handles the TopicJoined result of a ticket another
\* instance made in SubmitCreateTopic for name n, the result carries n and
\* the topic_hash the creator stored, and joiner and creator hold equal
\* topic_hash.
C11_GuiJoinMatchesCreator ==
    (last.op = "TopicJoined" /\ last.ok) =>
        \A h \in CreatorsOfJoined :
            /\ last.val.name \in DOMAIN apps[h].subscribed_topics
            /\ apps[h].topic_hash = Some(last.val.hash)
            /\ apps[last.c].topic_hash = apps[h].topic_hash

\* C18: a MessageReceived event appends its message to the list on display
\* and records the id when the id has not been received before, and appends
\* nothing when it has.
C18_FirstReceiptOnly ==
    [][last'.op = "MessageReceived" =>
          LET app == apps[last'.c]
              message == last'.arg
          IN  IF message.id \in app.processed_message_ids
              THEN apps'[last'.c].messages = app.messages
              ELSE /\ apps'[last'.c].messages = Append(app.messages, message)
                   /\ apps'[last'.c].processed_message_ids =
                          app.processed_message_ids \cup {message.id}]_vars

\* C18 witness: the message just received has the id of a message on display
\* that differs from it, and the list holds that id once.
C18_Witness ==
    /\ last.op = "MessageReceived"
    /\ LET messages == apps[last.c].messages
           same == { k \in DOMAIN messages : messages[k].id = last.arg.id }
       IN  /\ Cardinality(same) = 1
           /\ \A k \in same : messages[k] # last.arg
           /\ Len(messages) = 2

\* C19: every message in the list on display of an instance has the
\* topic_hash the instance holds as its current topic_hash.
C19_DisplayedOnCurrentTopic ==
    \A g \in Apps :
        \A k \in DOMAIN apps[g].messages :
            apps[g].topic_hash = Some(apps[g].messages[k].topic_hash)

\* C21: a wait_for_message call returns: at once and with None when the
\* message channel was never initialized, and otherwise at the timeout at
\* the latest, with None (not an error) when its receiver holds no message.
C21_WaitTerminates ==
    /\ \A c \in Clients : (waiting[c] # 0) ~> (waiting[c] = 0)
    /\ [][\A c \in Clients :
            (waiting[c] # 0 /\ waiting'[c] = 0) =>
                /\ last'.op = "wait_for_message" /\ last'.c = c /\ last'.ok
                /\ subs[waiting[c]].queue = <<>> => last'.val = None]_vars
    /\ [][(/\ MESSAGE_SENDER = None
           /\ last' # last
           /\ last'.op \in {"wait_for_message", "wait_for_message_begin"}) =>
             (/\ last'.op = "wait_for_message" /\ last'.ok
              /\ last'.val = None
              /\ waiting' = waiting /\ subs' = subs)]_vars

\* C21 witness: a wait has returned None although the receiver of another
\* subscriber held a message: nothing had reached the waiter's own receiver.
C21_Witness ==
    /\ last.op = "wait_for_message" /\ last.val = None
    /\ MESSAGE_SENDER # None
    /\ \E i \in DOMAIN subs : subs[i].open /\ subs[i].queue # <<>>

\* the messages on display that the user of instance g sent
OwnMessages(g) ==
    SelectSeq(apps[g].messages,
              LAMBDA m : m.author = apps[g].input_state.username)

\* C24: of two messages the local user sent on one topic the later has the
\* greater sequence number: a SendMessage that sends gives the message the
\* current sequence_counter and adds one to the counter, and no other event
\* changes the counter.
C24_SequenceIncreases ==
    /\ [][\A g \in Apps :
            IF last'.op = "SendMessage" /\ last'.c = g /\ last'.arg # <<>>
            THEN /\ last'.arg.sequence = apps[g].sequence_counter
                 /\ apps'[g].sequence_counter = apps[g].sequence_counter + 1
            ELSE apps'[g].sequence_counter = apps[g].sequence_counter]_vars
    /\ [](\A g \in Apps :
            LET own == OwnMessages(g)
            IN  /\ \A i \in DOMAIN own :
                    own[i].sequence < apps[g].sequence_counter
                /\ \A i, j \in DOMAIN own :
                    (i < j /\ own[i].topic_hash = own[j].topic_hash) =>
                        own[i].sequence < own[j].sequence)

\* the user has sent two messages on one topic; both are on display
C24_Witness ==
    /\ last.op = "SendMessage" /\ last.arg # <<>>
    /\ apps[1].sequence_counter = 2
    /\ \E i, j \in DOMAIN OwnMessages(1) :
            /\ i < j
            /\ OwnMessages(1)[i].topic_hash = OwnMessages(1)[j].topic_hash
            /\ OwnMessages(1)[i].sequence = 0
            /\ OwnMessages(1)[j].sequence = 1

\* C26: processed_message_ids never loses an element, whatever the event
\* (BackToMenu, which empties the list on display, included); a message whose
\* id the set holds is not put on display again.
C26_ProcessedIdsKept ==
    [][\A g \in Apps :
          /\ apps[g].processed_message_ids \subseteq
                apps'[g].processed_message_ids
          /\ (/\ last'.op = "MessageReceived" /\ last'.c = g
              /\ last'.arg.id \in apps[g].processed_message_ids) =>
                last'.arg \notin
                    Range(apps'[g].messages) \ Range(apps[g].messages)
      ]_vars

\* the user is back in a chat room after BackToMenu emptied the list on
\* display; a message whose id was seen earlier has arrived again and is not
\* on display
C26_Witness ==
    /\ Screen(1) = "ChatRoom"
    /\ last.op = "MessageReceived"
    /\ last.arg.id \in apps[1].processed_message_ids
    /\ apps[1].messages = <<>>
    /\ guiUuid >= 2

\* C27: once initialize_message_channel has been called, MESSAGE_SENDER and
\* MESSAGE_RECEIVER are the two ends of one open channel, and a non-probe
\* message given to broadcast_message is appended to the queue that
\* MESSAGE_RECEIVER reads.
C27_SenderFeedsReceiver ==
    /\ [](MESSAGE_SENDER # None =>
            /\ MESSAGE_RECEIVER = MESSAGE_SENDER
            /\ chans[MESSAGE_SENDER[1]].open)
    /\ [][(last'.bcast # <<>> /\ MESSAGE_RECEIVER # None) =>
            chans'[MESSAGE_RECEIVER[1]].queue =
                Append(chans[MESSAGE_RECEIVER[1]].queue, last'.bcast[1])]_vars

\* the three topic fields of an IrohClient
TopicFields(client) ==
    <<client.topic_ticket, client.topic_hash, client.subscribed_topics>>

\* C25: create_topic, join_topic and send_message on one client leave the
\* topic_ticket, topic_hash and subscribed_topics of every other client as
\* they were.
C25_OtherClientsUntouched ==
    [][last'.op \in {"create_topic", "join_topic", "send_message"} =>
          \A k \in Clients :
              k # last'.c =>
                  TopicFields(clients'[k]) = TopicFields(clients[k])]_vars

\* a client has just created or joined a topic while the other client holds
\* a different one
C25_Witness ==
    /\ last.op \in {"create_topic", "join_topic"} /\ last.ok
    /\ \E k \in Clients :
          /\ k # last.c
          /\ clients[k].topic_hash # None
          /\ clients[k].topic_hash # clients[last.c].topic_hash
          /\ clients[k].topic_ticket # clients[last.c].topic_ticket

\* C28: with the main channel open and an active topic on the client,
\* send_message(author, content, sequence) appends exactly one message to the
\* main channel; it has the author, content and sequence given and the
\* identifier the client's last successful create_topic or join_topic
\* returned as its topic_hash.
C28_SendEnqueuesOne ==
    [][(/\ last'.op = "send_message"
        /\ MainOpen
        /\ clients[last'.c].topic_hash # None) =>
          LET before == chans[MESSAGE_SENDER[1]].queue
              after == chans'[MESSAGE_SENDER[1]].queue
          IN  /\ last'.ok
              /\ Len(after) = Len(before) + 1
              /\ SubSeq(after, 1, Len(before)) = before
              /\ after[Len(after)].author = last'.val.author
              /\ after[Len(after)].content = last'.val.content
              /\ after[Len(after)].sequence = last'.val.sequence
              /\ returned[last'.c] # None
              /\ after[Len(after)].topic_hash = returned[last'.c][1].hash]_vars

\* a send on the open main channel by a client that created a topic first
\* (no other client has one) and joined another topic after it
C28_Witness ==
    /\ last.op = "send_message" /\ last.ok
    /\ MainOpen
    /\ Len(chans[MESSAGE_SENDER[1]].queue) = 1
    /\ created # {}
    /\ \A k \in Clients \ {last.c} : clients[k].topic_hash = None
    /\ \A r \in created : r.hash # returned[last.c][1].hash

\* C29: a join_topic call that returns an error leaves topic_ticket,
\* topic_hash and subscribed_topics of the client as they were and has
\* broadcast nothing.
C29_FailedJoinChangesNothing ==
    [][(last'.op = "join_topic" /\ ~last'.ok) =>
          /\ TopicFields(clients'[last'.c]) = TopicFields(clients[last'.c])
          /\ last'.bcast = <<>>
          /\ chans' = chans
          /\ subs' = subs]_vars

\* a join that failed on a client that has an endpoint and an active topic,
\* the main channel being open
C29_Witness ==
    /\ last.op = "join_topic" /\ ~last.ok
    /\ clients[last.c].endpoint
    /\ clients[last.c].topic_hash # None
    /\ MainOpen

\* C30: topic_hash and topic_ticket of a client are both unset or both set;
\* when set, topic_hash is what subscribed_topics holds for the name of the
\* topic created or joined last.
C30_TopicFieldsAgree ==
    \A c \in Clients :
        /\ clients[c].topic_hash = None <=> clients[c].topic_ticket = None
        /\ clients[c].topic_hash = None <=> returned[c] = None
        /\ clients[c].topic_hash # None =>
              /\ returned[c][1].name \in DOMAIN clients[c].subscribed_topics
              /\ clients[c].subscribed_topics[returned[c][1].name] =
                    clients[c].topic_hash[1]

\* a client whose last call replaced the entry of a name it held already
C30_Witness ==
    /\ last.op \in {"create_topic", "join_topic"} /\ last.ok
    /\ \E r \in created :
          /\ r.name = returned[last.c][1].name
          /\ r.hash # returned[last.c][1].hash
    /\ clients[last.c].topic_ticket # None
    /\ Cardinality(DOMAIN clients[last.c].subscribed_topics) >= 1

\* C31: a get_message_receiver call that returns a receiver leaves in the
\* registry the senders registered before whose receivers were open at the
\* call, in their order, followed by the new sender; the senders of dropped
\* receivers are gone and the queue of the new receiver is empty.
C31_RegistryAfterCall ==
    [][(last'.op = "get_message_receiver" /\ last'.ok) =>
          LET before == Forwarders(MESSAGE_FORWARDERS)
              new == last'.val[1]
          IN  /\ new \notin DOMAIN subs
              /\ Forwarders(MESSAGE_FORWARDERS') =
                    SelectSeq(before, LAMBDA i : subs[i].open) \o <<new>>
              /\ \A i \in Range(Forwarders(MESSAGE_FORWARDERS')) :
                    subs'[i].open
              /\ subs'[new].queue = <<>>]_vars

\* the call found three senders registered, the middle one with its receiver
\* dropped: the other two are kept in their order before the new one
C31_Witness ==
    /\ last.op = "get_message_receiver" /\ last.ok
    /\ last.val = Some(4)
    /\ ~subs[2].open
    /\ Forwarders(MESSAGE_FORWARDERS) = <<1, 3, 4>>
    /\ subs[1].queue # <<>> /\ subs[3].queue # <<>>

\* C32: while MESSAGE_SENDER is unset get_message_receiver returns None,
\* makes no subscriber known to the registry and leaves the registry as it
\* was.
C32_NoneBeforeInit ==
    [][(last'.op = "get_message_receiver" /\ MESSAGE_SENDER = None) =>
          /\ last'.val = None
          /\ MESSAGE_FORWARDERS' = MESSAGE_FORWARDERS
          /\ subs' = subs]_vars

\* get_message_receiver has returned None, the channel never initialized
C32_Witness ==
    /\ last.op = "get_message_receiver" /\ last.val = None
    /\ MESSAGE_SENDER = None
    /\ MESSAGE_FORWARDERS = None

\* C33: broadcast_message with a message of id "ping" and author "system"
\* changes no queue and no registry; with id "ping" and another author the
\* message goes the way of any message: it is passed on and appended to the
\* main channel when that is open.
C33_ProbeChangesNothing ==
    [][(last'.op = "broadcast_message" /\ last'.arg.id = Ping) =>
          IF last'.arg.author = "system"
          THEN /\ last'.bcast = <<>>
               /\ chans' = chans
               /\ subs' = subs
               /\ MESSAGE_FORWARDERS' = MESSAGE_FORWARDERS
               /\ MESSAGE_FORWARDERS_bm' = MESSAGE_FORWARDERS_bm
          ELSE /\ last'.bcast = <<last'.arg>>
               /\ IF MainOpen
                  THEN chans' = [chans EXCEPT ![MESSAGE_SENDER[1]].queue =
                                    Append(@, last'.arg)]
                  ELSE chans' = chans]_vars

\* a message with id "ping" from another author is in the main channel,
\* which was open, while a subscriber is registered
C33_Witness ==
    /\ last.op = "broadcast_message"
    /\ last.arg.id = Ping /\ last.arg.author # "system"
    /\ MainOpen
    /\ chans[MESSAGE_SENDER[1]].queue = <<last.arg>>
    /\ \E i \in Registry : subs[i].open

\* C34: a create_topic or join_topic call that returns Ok has handed one
\* announcement to broadcast_message (author "System", sequence 0, the
\* returned identifier as topic_hash) if the client has an endpoint, and
\* nothing if it has none.
C34_AnnouncedIffEndpoint ==
    (last.op \in {"create_topic", "join_topic"} /\ last.ok) =>
        IF clients[last.c].endpoint
        THEN /\ Len(last.bcast) = 1
             /\ last.bcast[1].author = "System"
             /\ last.bcast[1].sequence = 0
             /\ last.bcast[1].topic_hash = last.val.hash
        ELSE last.bcast = <<>>

\* C35: whenever the screen of an instance is ChatRoom, its current_topic
\* and topic_hash are set, so that a SendMessage with a non-blank text in the
\* chat room sends.
C35_ChatRoomHasTopic ==
    /\ [](\A g \in Apps :
            Screen(g) = "ChatRoom" =>
                apps[g].current_topic # None /\ apps[g].topic_hash # None)
    /\ [][\A g \in Apps :
            (/\ last'.op = "SendMessage" /\ last'.c = g
             /\ Screen(g) = "ChatRoom"
             /\ Trim(apps[g].input_state.message) # <<>>) =>
                /\ last'.arg # <<>>
                /\ apps'[g].messages = Append(apps[g].messages, last'.arg)
         ]_vars

\* the chat room was entered through a TopicJoined result while the result
\* of a SubmitCreateTopic is still to arrive
C35_Witness ==
    /\ Screen(1) = "ChatRoom"
    /\ last.op = "TopicJoined" /\ last.ok
    /\ inflight[1].TopicCreated # {}

\* the message of this id is in the channel of instance g
Pending(g, id) == \E k \in DOMAIN guiChannel[g] : guiChannel[g][k].id = id

\* C36: a Tick is taken only while the chat room is on display; it empties
\* the channel and makes one MessageReceived command for each message it
\* took; and a message in the channel is in the end handed to update as a
\* MessageReceived, unless the chat room is left.
C36_TickDrainsChannel ==
    /\ [][\A g \in Apps :
            (last'.op = "Tick" /\ last'.c = g) =>
                /\ Screen(g) = "ChatRoom"
                /\ guiChannel'[g] = <<>>
                /\ inflight'[g].MessageReceived =
                      inflight[g].MessageReceived \cup Range(guiChannel[g])
                /\ Cardinality(inflight'[g].MessageReceived) =
                      Cardinality(inflight[g].MessageReceived) +
                      Len(guiChannel[g])]_vars
    /\ \A id \in GuiMessageIds :
          Pending(1, id) ~>
              \/ last.op = "MessageReceived" /\ last.arg.id = id
              \/ Screen(1) # "ChatRoom"

\* the simulated replies to two SendMessage events have been handed to
\* update, which put them on display after the user's own messages
C36_Witness ==
    /\ last.op = "MessageReceived"
    /\ Screen(1) = "ChatRoom"
    /\ Len(apps[1].messages) = 4
    /\ \A k \in {3, 4} :
          StartsWith(apps[1].messages[k].author, <<"U", "s", "e", "r", "-">>)
    /\ apps[1].messages[4] = last.arg

\* C37: the list on display of an instance never holds two entries with the
\* same id, and every id in the list is in processed_message_ids.
C37_DisplayedIdsDistinct ==
    \A g \in Apps :
        LET messages == apps[g].messages
        IN  /\ \A i, j \in DOMAIN messages :
                  messages[i].id = messages[j].id => i = j
            /\ \A i \in DOMAIN messages :
                  messages[i].id \in apps[g].processed_message_ids

\* the user's own message, appended by SendMessage, and the reply to it,
\* appended by MessageReceived, are on display in the chat room
C37_Witness ==
    /\ Screen(1) = "ChatRoom"
    /\ Len(apps[1].messages) = 2
    /\ apps[1].messages[1].author = apps[1].input_state.username
    /\ apps[1].messages[2].author # apps[1].input_state.username
    /\ Cardinality(apps[1].processed_message_ids) >= 2

\* a recipient of broadcast_message cannot take a message: the main channel
\* is closed, or the receiver of a registered subscriber has been dropped
SomeRecipientClosed ==
    \/ MESSAGE_SENDER # None /\ ~MainOpen
    \/ \E j \in Registry : ~subs[j].open

\* C22: when a broadcast_message call finds a recipient closed, every other
\* recipient that is open (the main channel, each registered subscriber)
\* still gets the message in that call.
C22_FailedSendSparesOthers ==
    [][(last'.bcast # <<>> /\ SomeRecipientClosed) =>
          /\ MainOpen =>
                chans'[MESSAGE_SENDER[1]].queue =
                    Append(chans[MESSAGE_SENDER[1]].queue, last'.bcast[1])
          /\ \A i \in Registry :
                subs[i].open =>
                    subs'[i].queue = Append(subs[i].queue, last'.bcast[1])]_vars

\* a thread is inside get_message_receiver or broadcast_message
InHubCall(t) ==
    pc[t] \in {"gmr_isnone", "gmr_init", "gmr_retain", "gmr_push",
               "gmr_store", "bm_main", "bm_forward"}

\* C23: every get_message_receiver and broadcast_message call a thread has
\* begun returns, although no receiver is ever read and whatever the queues
\* already hold.
C23_CallsComplete ==
    \A t \in Threads : InHubCall(t) ~> (pc[t] = "idle")

\* both threads have returned from calls that sent to queues nobody reads:
\* the main channel holds two messages, the second sent to a non-empty queue,
\* and a subscriber holds a probe
C23_Witness ==
    /\ \A t \in Threads : pc[t] = "idle"
    /\ \E k \in DOMAIN chans : Len(chans[k].queue) >= 2
    /\ \E i \in DOMAIN subs : subs[i].open /\ subs[i].queue # <<>>

\* a thread is inside the unsafe block of get_message_receiver that reads and
\* modifies the registry (client.rs:105-139): it has made an access and has
\* another one to make
InRegistrySection(t) ==
    pc[t] \in {"gmr_init", "gmr_retain", "gmr_push", "gmr_store"}

\* a thread is inside the unsafe block of initialize_message_channel that
\* reads and modifies MESSAGE_SENDER / MESSAGE_RECEIVER (client.rs:73-86)
InChannelSection(t) == pc[t] \in {"imc_check", "imc_store"}

\* C4: once all concurrent get_message_receiver and broadcast_message calls
\* have returned, every sender made by get_message_receiver whose receiver is
\* still open is in the registry.
C4_NoLostRegistration ==
    (\A t \in Threads : pc[t] = "idle") =>
        \A i \in DOMAIN subs : subs[i].open => i \in Registry

\* C5: no two threads are at the same time inside the sections that read or
\* modify the registry, nor inside those that read or modify MESSAGE_SENDER
\* and MESSAGE_RECEIVER.
C5_MutualExclusion ==
    \A t1, t2 \in Threads :
        t1 # t2 =>
            /\ ~(InRegistrySection(t1) /\ InRegistrySection(t2))
            /\ ~(InChannelSection(t1) /\ InChannelSection(t2))

====
